---- MODULE Spec2Model ----
(***************************************************************************)
(* Verification model of src/src/env/critical.py: find_critical,           *)
(* core_mask, find_psisurface and find_safety.                             *)
(*                                                                         *)
(* Floating point quantities are modelled by integers in a fixed unit.     *)
(* A Python None is the empty sequence <<>>, a supplied value v is <<v>>.  *)
(* Arrays are functions over 0-based index ranges, as in the source.       *)
(***************************************************************************)
EXTENDS Integers, Sequences, FiniteSets, TLC

(***************************************************************************)
(* Bounds of the explored input space.                                     *)
(***************************************************************************)
\* longest X-point sequence handed to core_mask
MaxXpts == 1

VARIABLES
    pc,             \* position of the running call
    err,            \* exception that ended the call, "" when none
    opoint,         \* O-points, a sequence of <<R, Z, psi>>: argument of core_mask,
                    \* local list of find_critical and of find_safety
    xpoint,         \* X-points, likewise
    \* core_mask
    psi,            \* argument psi[nx, ny]
    psi_bndry_arg,  \* argument psi_bndry as passed (<<>> is None)
    psi_bndry,      \* psi_bndry after line 195
    mask,           \* local mask[nx, ny]
    stack,          \* local stack, a sequence of <<i, j>>
    \* find_critical
    Bp2,            \* Bp2[nx, ny], from the derivatives of the interpolant
    discard_xpoints, \* argument discard_xpoints
    node,           \* position of the loops of lines 42-43 in FcNodes
    count,          \* local count
    R1,             \* local R1
    Z1,             \* local Z1
    \* find_psisurface
    r0, z0, r1, z1, \* arguments; r1 and z1 are rebound by lines 260-268
    n,              \* argument n
    pnorm,          \* pnorm[0 .. n-1], the values of psifunc on the ray
    psival,         \* argument psival, a scalar
    idx,            \* local idx
    \* find_safety
    opoint_arg,     \* argument opoint as passed (<<>> is None, <<l>> the list l)
    xpoint_arg,     \* argument xpoint as passed
    ret             \* value returned by find_psisurface or find_safety,
                    \* <<>> while there is none

cmVars == <<psi, psi_bndry_arg, psi_bndry, mask, stack>>
fcVars == <<Bp2, discard_xpoints, node, count, R1, Z1>>
psVars == <<r0, z0, r1, z1, n, pnorm, psival, idx>>
fsVars == <<opoint_arg, xpoint_arg>>
vars == <<pc, err, opoint, xpoint, ret, cmVars, fcVars, psVars, fsVars>>
notMask == <<ret, fcVars, psVars, fsVars>>
notCritical == <<ret, cmVars, psVars, fsVars>>
notSurface == <<opoint, xpoint, cmVars, fcVars, fsVars>>
notSafety == <<cmVars, fcVars, psVars>>

\* the variables of a function that is not running
IdleMask ==
    /\ psi = <<>> /\ psi_bndry_arg = <<>> /\ psi_bndry = <<>>
    /\ mask = <<>> /\ stack = <<>>
IdleCritical ==
    /\ Bp2 = <<>> /\ discard_xpoints = FALSE
    /\ node = 0 /\ count = 0 /\ R1 = 0 /\ Z1 = 0
IdleSurface ==
    /\ r0 = 0 /\ z0 = 0 /\ r1 = 0 /\ z1 = 0
    /\ n = 0 /\ pnorm = <<>> /\ psival = 0 /\ idx = 0
IdleSafety ==
    /\ opoint_arg = <<>> /\ xpoint_arg = <<>>

Abs(x) == IF x < 0 THEN -x ELSE x

(***************************************************************************)
(* core_mask                                                               *)
(***************************************************************************)
\* nx, ny = psi.shape: the grid explored has 2 rows of 3 cells
nx == 2
ny == 3
Rows == 0 .. (nx - 1)
Cols == 0 .. (ny - 1)
Cells == Rows \X Cols
\* values taken by the field, by psi_axis and by psi_bndry
PsiVals == {0, 1}

\* R[:, 0] and Z[0, :] of a unit rectilinear grid
Rgrid == [i \in Rows |-> i]
Zgrid == [j \in Cols |-> j]

\* np.argmin(abs(grid - x)): the first index of the least distance
ArgMinAbs(grid, x) ==
    CHOOSE k \in DOMAIN grid :
        /\ \A m \in DOMAIN grid : Abs(grid[k] - x) <= Abs(grid[m] - x)
        /\ \A m \in DOMAIN grid : m < k => Abs(grid[k] - x) < Abs(grid[m] - x)

\* np.clip(v, lo, hi)
Clip(v, lo, hi) == IF v < lo THEN lo ELSE IF v > hi THEN hi ELSE v

psi_axis == opoint[1][3]

\* psin = (psi - psi_axis) / (psi_bndry - psi_axis), compared with 1.0 the way
\* IEEE division does: x/0 is +inf, -inf or nan, and nan fails every comparison
PsinLt1(c) ==
    LET num == psi[c] - psi_axis
        den == psi_bndry[1] - psi_axis
    IN  IF den > 0 THEN num < den ELSE IF den < 0 THEN num > den ELSE num < 0

PsinGe1(c) ==
    LET num == psi[c] - psi_axis
        den == psi_bndry[1] - psi_axis
    IN  IF den > 0 THEN num >= den ELSE IF den < 0 THEN num <= den ELSE num > 0

\* nearest index of an X-point
XptInd(xp) == <<ArgMinAbs(Rgrid, xp[1]), ArgMinAbs(Zgrid, xp[2])>>

\* the 3x3 neighbourhood of index <<ix, jx>>, clipped to the grid
Nbhd(ind) ==
    { Clip(ind[1] + a, 0, nx - 1) : a \in {-1, 0, 1} } \X
    { Clip(ind[2] + b, 0, ny - 1) : b \in {-1, 0, 1} }

xpt_inds == [k \in DOMAIN xpoint |-> XptInd(xpoint[k])]

Blocked == UNION { Nbhd(xpt_inds[k]) : k \in DOMAIN xpoint }

rind == ArgMinAbs(Rgrid, opoint[1][1])
zind == ArgMinAbs(Zgrid, opoint[1][2])
seed == <<rind, zind>>

\* an indexing slip: the Z coordinate of the first X-point for its field value
BoundaryValueOfCoordinate(arg, xp) ==
    IF arg = <<>> THEN <<xp[1][2]>> ELSE arg

\* lines 194-195: psi_bndry as supplied, else the field value of the first X-point
BoundaryValue(arg, xp) ==
    IF arg = <<>> THEN <<xp[1][3]>> ELSE arg

\* lines 189-219: argument handling, blocking of the X-point regions, seeding.
\* opoint[0] and xpoint[0] raise IndexError on an empty sequence.
Start ==
    /\ pc = "start"
    /\ IF opoint = <<>> \/ (psi_bndry = <<>> /\ xpoint = <<>>)
       THEN /\ pc' = "raised"
            /\ err' = "IndexError"
            /\ UNCHANGED <<opoint, xpoint, cmVars, notMask>>
       ELSE /\ psi_bndry' = BoundaryValue(psi_bndry, xpoint)
            /\ mask' = [c \in Cells |-> IF c \in Blocked THEN 2 ELSE 0]
            /\ stack' = <<seed>>
            /\ pc' = "fill"
            /\ UNCHANGED <<err, psi, opoint, xpoint, psi_bndry_arg, notMask>>

\* the left check left out
PushLeftNever(m, s, i, j) == s

\* lines 224-226: check the point to the left of the popped cell
PushLeft(m, s, i, j) ==
    IF (j > 0) /\ PsinLt1(<<i, j - 1>>) /\ (m[<<i, j - 1>>] = 0)
    THEN Append(s, <<i, j - 1>>) ELSE s

\* an index slip: the cell below and one to the right for the cell below
PushVerticalSkewed(m, s, i, j) ==
    LET s1 == IF (i < nx - 1) /\ (j < ny - 1) /\ PsinLt1(<<i + 1, j + 1>>)
                 /\ (m[<<i + 1, j + 1>>] = 0)
              THEN Append(s, <<i + 1, j + 1>>) ELSE s
    IN  IF (i > 0) /\ PsinLt1(<<i - 1, j>>) /\ (m[<<i - 1, j>>] = 0)
        THEN Append(s1, <<i - 1, j>>) ELSE s1

\* lines 232-235: push the cells below and above <<i, j>>
PushVertical(m, s, i, j) ==
    LET s1 == IF (i < nx - 1) /\ PsinLt1(<<i + 1, j>>) /\ (m[<<i + 1, j>>] = 0)
              THEN Append(s, <<i + 1, j>>) ELSE s
    IN  IF (i > 0) /\ PsinLt1(<<i - 1, j>>) /\ (m[<<i - 1, j>>] = 0)
        THEN Append(s1, <<i - 1, j>>) ELSE s1

\* lines 229-241: scan along a row to the right
RECURSIVE ScanRow(_, _, _, _)
ScanRow(m, s, i, j) ==
    LET m1 == [m EXCEPT ![<<i, j>>] = 1]
        s1 == PushVertical(m1, s, i, j)
    IN  IF j = ny - 1 THEN [mask |-> m1, stack |-> s1]
        ELSE IF PsinGe1(<<i, j + 1>>) \/ (m1[<<i, j + 1>>] > 0)
             THEN [mask |-> m1, stack |-> s1]
             ELSE ScanRow(m1, s1, i, j + 1)

\* the top of the stack read but not removed
FillStepWithoutPop ==
    /\ pc = "fill"
    /\ stack # <<>>
    /\ LET top == stack[Len(stack)]
           i == top[1]
           j == top[2]
           res == ScanRow(mask, PushLeft(mask, stack, i, j), i, j)
       IN  /\ mask' = res.mask
           /\ stack' = res.stack
    /\ UNCHANGED <<pc, err, psi, opoint, xpoint, psi_bndry_arg, psi_bndry, notMask>>

\* lines 221-241: one iteration of "while stack"
FillStep ==
    /\ pc = "fill"
    /\ stack # <<>>
    /\ LET top == stack[Len(stack)]
           i == top[1]
           j == top[2]
           s0 == SubSeq(stack, 1, Len(stack) - 1)
           res == ScanRow(mask, PushLeft(mask, s0, i, j), i, j)
       IN  /\ mask' = res.mask
           /\ stack' = res.stack
    /\ UNCHANGED <<pc, err, psi, opoint, xpoint, psi_bndry_arg, psi_bndry, notMask>>

\* the else branch left out: a blocked cell with psin >= 1.0 keeps its marker
ResolveOnePromoteOnly(m, ind) ==
    [c \in Cells |-> IF c \in Nbhd(ind) /\ PsinLt1(c) THEN 1 ELSE m[c]]

\* lines 245-250: one X-point neighbourhood resolved by psin
ResolveOne(m, ind) ==
    [c \in Cells |-> IF c \in Nbhd(ind) THEN (IF PsinLt1(c) THEN 1 ELSE 0) ELSE m[c]]

\* line 244: for ix, jx in xpt_inds
RECURSIVE ResolveFrom(_, _)
ResolveFrom(m, k) ==
    IF k > Len(xpoint) THEN m ELSE ResolveFrom(ResolveOne(m, xpt_inds[k]), k + 1)

\* lines 243-252: the stack is exhausted; resolve the X-point regions, return mask
ResolveXpoints ==
    /\ pc = "fill"
    /\ stack = <<>>
    /\ mask' = ResolveFrom(mask, 1)
    /\ pc' = "done"
    /\ UNCHANGED <<err, psi, opoint, xpoint, psi_bndry_arg, psi_bndry, stack, notMask>>

\* A call of core_mask: any field, any O-point sequence of at most one point
\* (only opoint[0] is read), any X-point sequence of at most MaxXpts points that
\* carry the field value of their node, psi_bndry None or a value.
InitMask ==
    /\ pc = "start"
    /\ err = ""
    /\ psi \in [Cells -> PsiVals]
    /\ opoint \in {<<>>} \cup { <<p>> : p \in Rows \X Cols \X PsiVals }
    /\ \E len \in 0 .. MaxXpts : \E pos \in [1 .. len -> Cells] :
           xpoint = [k \in 1 .. len |-> <<pos[k][1], pos[k][2], psi[pos[k]]>>]
    /\ psi_bndry_arg \in {<<>>} \cup { <<v>> : v \in PsiVals }
    /\ psi_bndry = psi_bndry_arg
    /\ mask = [c \in Cells |-> 0]
    /\ stack = <<>>
    /\ ret = <<>>
    /\ IdleCritical /\ IdleSurface /\ IdleSafety

Init == InitMask

Next == Start \/ FillStep \/ ResolveXpoints

Spec == Init /\ [][Next]_vars

\* the while loop of the fill is scheduled until its stack is empty
FairSpec == Spec /\ WF_vars(Next)

(***************************************************************************)
(* Properties of core_mask                                                 *)
(***************************************************************************)
Returned == pc = "done"
Inside == { c \in Cells : mask[c] = 1 }

Adjacent(c, e) == Abs(c[1] - e[1]) + Abs(c[2] - e[2]) = 1

\* the cells joined to the cells of `from` by a 4-connected path within `through`
RECURSIVE Grow(_, _)
Grow(from, through) ==
    LET more == { c \in through \ from : \E e \in from : Adjacent(c, e) }
    IN  IF more = {} THEN from ELSE Grow(from \cup more, through)

\* psi_bndry differs from psi_axis, so that psin is finite
Finite == psi_bndry[1] # psi_axis

\* C1: no cell of the returned mask marked inside has psin >= 1.0 (checked on
\* the calls with finite psin)
C1_NoInsideCellBeyondBoundary ==
    (Returned /\ Finite) => \A c \in Inside : ~PsinGe1(c)

\* C2: every inside cell of the returned mask is joined to the seed cell by a
\* 4-connected path of inside cells (checked on the calls with finite psin
\* whose seed cell has psin < 1.0)
C2_InsideJoinedToSeed ==
    (Returned /\ Finite /\ PsinLt1(seed)) =>
        Inside \subseteq Grow({seed} \cap Inside, Inside)

\* C2 amended: every inside cell outside the X-point neighbourhoods is joined to
\* the seed cell by a 4-connected path of inside cells outside the neighbourhoods
\* (the seed cell itself may lie in a neighbourhood)
C2_FilledJoinedToSeed ==
    Returned => (Inside \ Blocked) \subseteq Grow({seed}, Inside \ Blocked)

\* a returned mask with an inside cell two steps from the seed, and a promoted
\* cell of an X-point neighbourhood that no inside path joins to the seed
C2_Witness ==
    /\ Returned
    /\ \E c \in Inside \ Blocked : c # seed /\ ~Adjacent(c, seed)
    /\ \E c \in Inside \cap Blocked : c \notin Grow({seed} \cap Inside, Inside)

\* plain 4-neighbour flood fill from the seed through unblocked cells with psin < 1
Flood4 == Grow({seed}, { c \in Cells \ Blocked : PsinLt1(c) })

\* C3: the returned mask is 1 exactly on the cells a 4-connected path of
\* unblocked cells with psin < 1.0 joins to the seed cell, 0 elsewhere (checked
\* on the calls with finite psin whose seed cell is unblocked with psin < 1.0)
C3_InsideIsFloodFill ==
    (Returned /\ Finite /\ PsinLt1(seed) /\ seed \notin Blocked) =>
        Inside = Flood4

\* C3 amended: outside the X-point neighbourhoods the mask is 1 on every cell
\* plain flood fill reaches from the seed cell, and, when psi_bndry differs
\* from psi_axis, on no other; within the neighbourhoods it is 1 exactly on the
\* cells with psin < 1.0
C3_FloodFillOutsidePromotedWithin ==
    Returned =>
        /\ (Flood4 \ Blocked) \subseteq Inside
        /\ Finite => (Inside \ Blocked) = (Flood4 \ Blocked)
        /\ (Inside \cap Blocked) = { c \in Blocked : PsinLt1(c) }

\* a returned mask whose fill went round a barrier to the left of the seed,
\* back into the seed's row
C3_Witness ==
    /\ Returned
    /\ Finite
    /\ \E j \in Cols : /\ j + 1 < seed[2]
                        /\ <<seed[1], j>> \in Inside \ Blocked
                        /\ PsinGe1(<<seed[1], j + 1>>)

C6_BoundaryValue ==
    /\ pc \in {"fill", "done"} =>
           psi_bndry = (IF psi_bndry_arg # <<>> THEN psi_bndry_arg
                        ELSE <<xpoint[1][3]>>)
    /\ (psi_bndry_arg = <<>> /\ xpoint = <<>>) =>
           /\ pc \in {"start", "raised"}
           /\ pc = "raised" => err = "IndexError"
           /\ stack = <<>>
           /\ \A c \in Cells : mask[c] = 0

\* a call without psi_bndry and without X-points, ended by the exception
C6_Witness ==
    /\ pc = "raised" /\ err = "IndexError"
    /\ opoint # <<>> /\ psi_bndry_arg = <<>> /\ xpoint = <<>>

\* C8: the fill terminates: the stack is eventually exhausted
C8_FillTerminates ==
    (pc = "fill") ~> (pc = "done" /\ stack = <<>>)

\* a cell waiting on the stack that another scan has already marked
C8_Witness ==
    /\ pc = "fill"
    /\ \E k \in DOMAIN stack : mask[stack[k]] = 1
    /\ \E k, l \in DOMAIN stack : k # l /\ stack[k] = stack[l]

(***************************************************************************)
(* find_critical                                                           *)
(*                                                                         *)
(* Lengths are in units of 1e-3, so that the squared distance 1e-5 of      *)
(* remove_dup is 10.  The interpolant f and the field psi are outside the  *)
(* model: what the code computes from them (the convergence test, the      *)
(* Newton step, the second differences, the field value at a point, the    *)
(* tests on the line to an X-point) is chosen from small sets.             *)
(***************************************************************************)
MAX_COUNT == 128
\* 1e-5 of line 115
DupSq == 10

\* nx, ny = Bp2.shape: the grid explored has 5 rows of 9 nodes, spaced by 1
fc_nx == 5
fc_ny == 9
FcGrid == (0 .. fc_nx - 1) \X (0 .. fc_ny - 1)
\* R[i, j] and Z[i, j]
FcR(i, j) == i
FcZ(i, j) == j

\* lines 29-32
dR == FcR(1, 0) - FcR(0, 0)
dZ == FcZ(0, 1) - FcZ(0, 0)
radius_sq == 9 * (dR * dR + dZ * dZ)

\* lines 42-43: the nodes visited, in the order of the two loops
RECURSIVE NodesFrom(_, _)
NodesFrom(i, j) ==
    IF i > fc_nx - 3 THEN <<>>
    ELSE IF j > fc_ny - 3 THEN NodesFrom(i + 1, 2)
    ELSE <<<<i, j>>>> \o NodesFrom(i, j + 1)
FcNodes == NodesFrom(2, 2)

\* lines 44-53: a strict minimum of Bp2 among the 8 neighbours
IsLocalMin(i, j) ==
    \A a \in {-1, 0, 1} : \A b \in {-1, 0, 1} :
        (a # 0 \/ b # 0) => Bp2[<<i, j>>] < Bp2[<<i + a, j + b>>]

\* where a Newton step can land, relative to the seed, and the field values,
\* second differences of psi and psi values the code can meet
NewtonLandings == {<<0, 0>>, <<0, 1>>, <<0, 5>>}
SecondDiffs == {-1, 1}
FVals == {0, 1}

Sq(x) == x * x

\* the duplicate test with a threshold of 1e-6
IsDupTight(p, p2) == Sq(p[1] - p2[1]) + Sq(p[2] - p2[2]) < 1

\* line 115
IsDup(p, p2) == Sq(p[1] - p2[1]) + Sq(p[2] - p2[2]) < DupSq

\* lines 110-121
RECURSIVE RemoveDupFrom(_, _, _)
RemoveDupFrom(points, k, result) ==
    IF k > Len(points) THEN result
    ELSE IF \E m \in DOMAIN result : IsDup(points[k], result[m])
         THEN RemoveDupFrom(points, k + 1, result)
         ELSE RemoveDupFrom(points, k + 1, Append(result, points[k]))
remove_dup(points) == RemoveDupFrom(points, 1, <<>>)

\* list.sort(key = ...): stable, ascending; on pairs <<key, item>>
RECURSIVE InsertByKey(_, _)
InsertByKey(sorted, x) ==
    IF sorted = <<>> THEN <<x>>
    ELSE IF x[1] < sorted[Len(sorted)][1]
         THEN Append(InsertByKey(SubSeq(sorted, 1, Len(sorted) - 1), x),
                     sorted[Len(sorted)])
         ELSE Append(sorted, x)
RECURSIVE SortFrom(_, _, _)
SortFrom(keyed, k, sorted) ==
    IF k > Len(keyed) THEN sorted
    ELSE SortFrom(keyed, k + 1, InsertByKey(sorted, keyed[k]))
SortKeyed(keyed) ==
    LET sorted == SortFrom(keyed, 1, <<>>)
    IN  [k \in DOMAIN keyed |-> sorted[k][2]]

\* lines 131-134, with both sides of the comparison multiplied by 4
MidKey(x) ==
    LET Rmid2 == FcR(fc_nx - 1, 0) - FcR(0, 0)
        Zmid2 == FcZ(0, fc_ny - 1) - FcZ(0, 0)
    IN  Sq(2 * x[1] - Rmid2) + Sq(2 * x[2] - Zmid2)

\* the dead locals of a finished Newton loop
ForgetCandidate == count' = 0 /\ R1' = 0 /\ Z1' = 0

\* lines 42-62: one node of the scan; a local minimum seeds a Newton loop
ScanNode ==
    /\ pc = "scan"
    /\ node <= Len(FcNodes)
    /\ LET i == FcNodes[node][1]
           j == FcNodes[node][2]
       IN  IF IsLocalMin(i, j)
           THEN /\ R1' = FcR(i, j)
                /\ Z1' = FcZ(i, j)
                /\ count' = 0
                /\ pc' = "newton"
                /\ node' = node
           ELSE /\ node' = node + 1
                /\ UNCHANGED <<pc, count, R1, Z1>>
    /\ UNCHANGED <<err, opoint, xpoint, Bp2, discard_xpoints, notCritical>>

\* lines 65-102: the convergence test; the classification of a converged
\* candidate, or a Newton update (inv raises LinAlgError on a singular J)
NewtonIterate ==
    /\ pc = "newton"
    /\ \E met \in BOOLEAN :
        IF met
        THEN \E d2dr2 \in SecondDiffs, d2dz2 \in SecondDiffs, d2drdz \in {0, 1},
                fv \in FVals :
                LET D == d2dr2 * d2dz2 - d2drdz * d2drdz
                IN  /\ IF D < 0
                       THEN /\ xpoint' = Append(xpoint, <<R1, Z1, fv>>)
                            /\ opoint' = opoint
                       ELSE /\ opoint' = Append(opoint, <<R1, Z1, fv>>)
                            /\ xpoint' = xpoint
                    /\ pc' = "scan"
                    /\ node' = node + 1
                    /\ ForgetCandidate
                    /\ err' = err
        ELSE \/ /\ pc' = "raised"
                /\ err' = "LinAlgError"
                /\ ForgetCandidate
                /\ UNCHANGED <<opoint, xpoint, node>>
             \/ \E land \in NewtonLandings :
                    /\ R1' = FcR(FcNodes[node][1], FcNodes[node][2]) + land[1]
                    /\ Z1' = FcZ(FcNodes[node][1], FcNodes[node][2]) + land[2]
                    /\ count' = count + 1
                    /\ pc' = "strayed"
                    /\ UNCHANGED <<err, opoint, xpoint, node>>
    /\ UNCHANGED <<Bp2, discard_xpoints, notCritical>>

\* lines 104-106: the candidate strayed or the counter passed MAX_COUNT
NewtonDiscard ==
    /\ pc = "strayed"
    /\ LET R0 == FcR(FcNodes[node][1], FcNodes[node][2])
           Z0 == FcZ(FcNodes[node][1], FcNodes[node][2])
       IN  IF (Sq(R1 - R0) + Sq(Z1 - Z0) > radius_sq) \/ (count > MAX_COUNT)
           THEN /\ pc' = "scan"
                /\ node' = node + 1
                /\ ForgetCandidate
           ELSE /\ pc' = "newton"
                /\ UNCHANGED <<node, count, R1, Z1>>
    /\ UNCHANGED <<err, opoint, xpoint, Bp2, discard_xpoints, notCritical>>

\* lines 123-128: duplicates removed; return when no O-point is left
RemoveDuplicates ==
    /\ pc = "scan"
    /\ node > Len(FcNodes)
    /\ xpoint' = remove_dup(xpoint)
    /\ opoint' = remove_dup(opoint)
    /\ pc' = IF Len(opoint') = 0 THEN "done" ELSE "primary"
    /\ UNCHANGED <<err, fcVars, notCritical>>

\* the X-points of seq kept by keep
RECURSIVE Kept(_, _, _)
Kept(seq, keep, k) ==
    IF k > Len(seq) THEN <<>>
    ELSE (IF keep[k] THEN <<seq[k]>> ELSE <<>>) \o Kept(seq, keep, k + 1)

\* lines 131-167: the primary O-point first; the X-points that pass the two
\* tests on the line from it, or all of them when none passes
SortAndFilter ==
    /\ pc = "primary"
    /\ opoint' = SortKeyed([k \in DOMAIN opoint |-> <<MidKey(opoint[k]), opoint[k]>>])
    /\ IF discard_xpoints
       THEN \E keep \in [DOMAIN xpoint -> BOOLEAN] :
               LET xpt_keep == Kept(xpoint, keep, 1)
               IN  xpoint' = IF Len(xpt_keep) >= 1 THEN xpt_keep ELSE xpoint
       ELSE xpoint' = xpoint
    /\ pc' = "sortx"
    /\ UNCHANGED <<err, fcVars, notCritical>>

\* lines 170-173: the X-points sorted by distance in psi to the primary O-point
SortXpoints ==
    /\ pc = "sortx"
    /\ LET psi_ax == opoint[1][3]
           PsiKey(x) == Sq(x[3] - psi_ax)
       IN  xpoint' = SortKeyed([k \in DOMAIN xpoint |->
                                   <<PsiKey(xpoint[k]), xpoint[k]>>])
    /\ pc' = "done"
    /\ UNCHANGED <<err, opoint, fcVars, notCritical>>

\* A call of find_critical: Bp2 is 0 or 1 on the nodes the scan visits and 1 on
\* the two rows and columns around them
InitCritical ==
    /\ pc = "scan"
    /\ err = ""
    /\ opoint = <<>>
    /\ xpoint = <<>>
    /\ \E low \in SUBSET { FcNodes[k] : k \in DOMAIN FcNodes } :
           Bp2 = [g \in FcGrid |-> IF g \in low THEN 0 ELSE 1]
    /\ discard_xpoints \in BOOLEAN
    /\ node = 1
    /\ count = 0 /\ R1 = 0 /\ Z1 = 0
    /\ ret = <<>>
    /\ IdleMask /\ IdleSurface /\ IdleSafety

NextCritical ==
    \/ ScanNode \/ NewtonIterate \/ NewtonDiscard
    \/ RemoveDuplicates \/ SortAndFilter \/ SortXpoints

SpecCritical == InitCritical /\ [][NextCritical]_vars

(***************************************************************************)
(* Properties of find_critical                                             *)
(***************************************************************************)
FarApart(points) ==
    \A k, m \in DOMAIN points :
        k # m => Sq(points[k][1] - points[m][1])
                 + Sq(points[k][2] - points[m][2]) >= DupSq

\* C7: in both returned sequences every two distinct points have squared
\* distance >= 1e-5
C7_ReturnedPointsFarApart ==
    pc = "done" => FarApart(opoint) /\ FarApart(xpoint)

\* a return past the filter and the sorts with two X-points kept
C7_Witness ==
    /\ pc = "done"
    /\ Len(opoint) >= 1
    /\ Len(xpoint) >= 2
    /\ discard_xpoints

\* C9: no seed receives more than 128 Newton update steps; count is the number
\* of updates the current seed has received
C9_AtMost128Updates ==
    count <= 128

(***************************************************************************)
(* find_psisurface, for a scalar psival                                    *)
(*                                                                         *)
(* Coordinates are integers in a unit far above the 1e-6 of lines 260 and  *)
(* 265, so that abs(x) > 1e-6 is x # 0.  The calls explored are those on   *)
(* which the two clipping steps divide exactly.                            *)
(***************************************************************************)
\* longest ray, in samples
MaxN == 3

\* eq.Rmin, eq.Rmax, eq.Zmin, eq.Zmax
eq == [Rmin |-> 0, Rmax |-> 4, Zmin |-> 0, Zmax |-> 4]

\* lines 260-263, on <<r1, z1>>
ClipToR(a0, b0, a1, b1) ==
    IF Abs(a1 - a0) > 0
    THEN LET rclip == Clip(a1, eq.Rmin, eq.Rmax)
         IN  <<rclip, b0 + ((b1 - b0) * Abs(rclip - a0)) \div Abs(a1 - a0)>>
    ELSE <<a1, b1>>

\* lines 265-268, on <<r1, z1>>; line 265 compares z1 with r0
ClipToZ(a0, b0, a1, b1) ==
    IF Abs(b1 - a0) > 0
    THEN LET zclip == Clip(b1, eq.Zmin, eq.Zmax)
         IN  <<a0 + ((a1 - a0) * Abs(zclip - b0)) \div Abs(b1 - b0), zclip>>
    ELSE <<a1, b1>>

\* both clipping steps divide exactly, and by no zero
ExactRay(a0, b0, a1, b1) ==
    LET rclip == Clip(a1, eq.Rmin, eq.Rmax)
        c == ClipToR(a0, b0, a1, b1)
        zclip == Clip(c[2], eq.Zmin, eq.Zmax)
    IN  /\ Abs(a1 - a0) > 0 => ((b1 - b0) * Abs(rclip - a0)) % Abs(a1 - a0) = 0
        /\ Abs(c[2] - a0) > 0 =>
               /\ c[2] # b0
               /\ ((c[1] - a0) * Abs(zclip - b0)) % Abs(c[2] - b0) = 0

\* lines 260-268: the end of the ray clipped into the domain
ClipRay ==
    /\ pc = "clip"
    /\ LET c == ClipToR(r0, z0, r1, z1)
           e == ClipToZ(r0, z0, c[1], c[2])
       IN  r1' = e[1] /\ z1' = e[2]
    /\ pc' = "sample"
    /\ UNCHANGED <<err, ret, r0, z0, n, pnorm, psival, idx, notSurface>>

\* np.linspace(a, b, n)[k], multiplied by n - 1
Linspace(a, b, k) == (n - 1) * a + k * (b - a)

\* seq[k] of Python: a negative index counts from the end
PyIndex(k) == IF k < 0 THEN k + n ELSE k

\* np.argmax(pnorm > psival): the first index that exceeds, 0 when none does
ArgMaxExceeds ==
    IF \E k \in 0 .. n - 1 : pnorm[k] > psival
    THEN CHOOSE k \in 0 .. n - 1 :
             /\ pnorm[k] > psival
             /\ \A m \in 0 .. k - 1 : ~(pnorm[m] > psival)
    ELSE 0

\* lines 286-289 for index k: the point (1 - f) * r[k] + f * r[k - 1] with
\* f = fnum / fden, as the fractions rnum / den and znum / den; den = 0 is a
\* division by zero, a result that is no finite number
Crossing(k) ==
    LET prev == PyIndex(k - 1)
        fnum == pnorm[k] - psival
        fden == pnorm[k] - pnorm[prev]
    IN  [rnum |-> (fden - fnum) * Linspace(r0, r1, k)
                    + fnum * Linspace(r0, r1, prev),
         znum |-> (fden - fnum) * Linspace(z0, z1, k)
                    + fnum * Linspace(z0, z1, prev),
         den |-> fden * (n - 1)]

\* lines 270-294: the ray sampled, the crossing index, the interpolated point
Cross ==
    /\ pc = "sample"
    /\ idx' = ArgMaxExceeds
    /\ ret' = <<Crossing(idx')>>
    /\ pc' = "done"
    /\ UNCHANGED <<err, r0, z0, r1, z1, n, pnorm, psival, notSurface>>

PnVals == {0, 1, 2}

InitSurface ==
    /\ pc = "clip"
    /\ err = ""
    /\ ret = <<>>
    /\ r0 \in {1, 2} /\ z0 \in {1, 2}
    /\ r1 \in {-2, 0, 2, 4, 6} /\ z1 \in {-2, 0, 2, 4, 6}
    /\ ExactRay(r0, z0, r1, z1)
    /\ n \in 2 .. MaxN
    /\ pnorm \in [0 .. n - 1 -> PnVals]
    /\ psival \in PnVals
    /\ idx = 0
    /\ opoint = <<>> /\ xpoint = <<>>
    /\ IdleMask /\ IdleCritical /\ IdleSafety

NextSurface == ClipRay \/ Cross

SpecSurface == InitSurface /\ [][NextSurface]_vars

\* C10: when no sample exceeds psival the index is 0 and the returned point
\* is the start (r0, z0) of the ray; when the first sample that exceeds has a
\* sample before it, the returned point is the interpolation between the two
\* (checked on the calls whose result is finite)
C10_CrossingPoint ==
    (pc = "done" /\ ret[1].den # 0) =>
        IF \A k \in 0 .. n - 1 : pnorm[k] <= psival
        THEN /\ idx = 0
             /\ ret[1].rnum = ret[1].den * r0
             /\ ret[1].znum = ret[1].den * z0
        ELSE LET first == CHOOSE k \in 0 .. n - 1 :
                              /\ pnorm[k] > psival
                              /\ \A m \in 0 .. k - 1 : pnorm[m] <= psival
                 fnum == pnorm[first] - psival
                 fden == pnorm[first] - pnorm[first - 1]
             IN  first >= 1 =>
                     /\ idx = first
                     /\ ret[1].den = fden * (n - 1)
                     /\ ret[1].rnum = fden * Linspace(r0, r1, first)
                            - fnum * (Linspace(r0, r1, first)
                                      - Linspace(r0, r1, first - 1))
                     /\ ret[1].znum = fden * Linspace(z0, z1, first)
                            - fnum * (Linspace(z0, z1, first)
                                      - Linspace(z0, z1, first - 1))

(***************************************************************************)
(* find_safety                                                             *)
(*                                                                         *)
(* Every call ends at line 364, at line 366 or at line 370, where the      *)
(* field value opoint[0][2], a float, is unpacked into r0 and z0: lines    *)
(* 372-436 are never run.                                                  *)
(***************************************************************************)
FsPoints == {0, 1} \X {0, 1} \X {0, 1}
\* the lists of critical points passed, or returned by find_critical
FsLists == {<<>>} \cup { <<p>> : p \in FsPoints }

\* lines 354-358: find_critical is called when either argument is None
ResolveCriticalPoints ==
    /\ pc = "start"
    /\ IF opoint_arg = <<>> \/ xpoint_arg = <<>>
       THEN opoint' \in FsLists /\ xpoint' \in FsLists
       ELSE opoint' = opoint_arg[1] /\ xpoint' = xpoint_arg[1]
    /\ pc' = "check"
    /\ UNCHANGED <<err, ret, fsVars, notSafety>>

\* lines 363-368: without an X-point a ValueError object is returned; else
\* psi_norm is computed (opoint[0] raises IndexError on an empty list)
CheckXpoint ==
    /\ pc = "check"
    /\ IF Len(xpoint) = 0
       THEN /\ ret' = <<"ValueError">>
            /\ pc' = "done"
            /\ err' = err
       ELSE IF Len(opoint) = 0
            THEN /\ pc' = "raised"
                 /\ err' = "IndexError"
                 /\ ret' = ret
            ELSE /\ pc' = "origin"
                 /\ UNCHANGED <<err, ret>>
    /\ UNCHANGED <<opoint, xpoint, fsVars, notSafety>>

\* line 370: r0, z0 = opoint[0][2] raises TypeError
UnpackOrigin ==
    /\ pc = "origin"
    /\ pc' = "raised"
    /\ err' = "TypeError"
    /\ UNCHANGED <<ret, opoint, xpoint, fsVars, notSafety>>

InitSafety ==
    /\ pc = "start"
    /\ err = ""
    /\ ret = <<>>
    /\ opoint_arg \in {<<>>} \cup { <<l>> : l \in FsLists }
    /\ xpoint_arg \in {<<>>} \cup { <<l>> : l \in FsLists }
    /\ opoint = <<>> /\ xpoint = <<>>
    /\ IdleMask /\ IdleCritical /\ IdleSurface

NextSafety == ResolveCriticalPoints \/ CheckXpoint \/ UnpackOrigin

SpecSafety == InitSafety /\ [][NextSafety]_vars

\* C5: when no X-point exists the call ends in an error raised to the caller,
\* not in a returned value
C5_NoXpointRaises ==
    (pc \in {"done", "raised"} /\ Len(xpoint) = 0) =>
        (pc = "raised" /\ err # "" /\ ret = <<>>)

====
